---- MODULE Spec2Model ----
\* PT5 uploader (src/pt5_uploader.py): main, argument and credential
\* validation, file enumeration, key resolution, the batched submission
\* loop, the worker pool and the completion-collection loop.
\*
\* Strings are sequences of one-character strings ("a/b" is <<"a","/","b">>).
\* A local path is the index k of a file of the source tree (FileName(k) is
\* its path relative to the source); a future is the ordinal of the
\* executor.submit call that returned it.
\* Reads of the environment (os.path.exists, Path.exists, the directory
\* listing, list_buckets, open/upload_fileobj, os.path.getsize) are
\* nondeterministic choices made by the action that performs the read.
EXTENDS Integers, Sequences, FiniteSets, TLC

\* ---------------------------------------------------------------- bounds
MaxFiles == 3
MaxLen == 3
MaxPoolTasks == 34
BatchExtra == 8

\* ------------------------------------------------------ program constants
WorkerCap == 32
batch_size == 1000

VARIABLES
  pc,             \* position of the main thread
  args,           \* the parsed argparse.Namespace
  args_checked,   \* "no" | "ok" | "bad": outcome of validate_args
  creds_checked,  \* "no" | "ok" | "bad": outcome of validate_aws_credentials
  src_missing,    \* an existence check of args.source answered False
  enum_called,    \* get_files_to_upload has been called
  files,          \* its result: sequence of <<local_path, s3_key>>
  dry_printed,    \* the remote keys the dry run has logged
  upload_tasks,   \* sequence of <<local_path, full_s3_key>>
  total_files, max_workers, success, total_size,
  i,              \* offset of the current batch
  futures,        \* futures of the latest batch, in submission order
  submit_log,     \* arguments of every executor.submit call, in call order
  future_to_file, \* the dict future -> local_path
  fstate,         \* future -> "queued" | "running" | "ok" | "failed"
  s3_written,     \* some upload_file has called s3_client.upload_fileobj
  yielded,        \* futures as_completed has yielded
  sized,          \* futures whose os.path.getsize succeeded
  pbar,           \* number of pbar.update(1) calls of the collection loop
  ret,            \* return value of upload_files (valid once pc = "returned")
  exit_code,      \* return value of main (valid once pc = "exit")
  p_queued, p_active, p_done  \* the worker pool by numbers: calls queued,
                              \* executing and finished

vars == <<pc, args, args_checked, creds_checked, src_missing, enum_called,
          files, dry_printed, upload_tasks, total_files, max_workers, success,
          total_size, i, futures, submit_log, future_to_file, fstate, s3_written,
          yielded, sized, pbar, ret, exit_code,
          p_queued, p_active, p_done>>

\* ------------------------------------------------------------ strings
None == <<"None">>

Truthy(x) == x # None /\ x # <<>>

Min(a, b) == IF a <= b THEN a ELSE b

RECURSIVE StrN(_, _)
StrN(alphabet, n) ==
  IF n = 0 THEN {<<>>}
  ELSE {s \o <<c>> : s \in StrN(alphabet, n - 1), c \in alphabet}

Strings(alphabet, n) == UNION {StrN(alphabet, k) : k \in 0..n}

startswith(s, p) == Len(s) >= Len(p) /\ SubSeq(s, 1, Len(p)) = p

\* str.split('/')
RECURSIVE split(_)
split(s) ==
  IF \A k \in 1..Len(s) : s[k] # "/" THEN <<s>>
  ELSE LET k == CHOOSE j \in 1..Len(s) :
                  s[j] = "/" /\ \A h \in 1..(j - 1) : s[h] # "/"
       IN <<SubSeq(s, 1, k - 1)>> \o split(SubSeq(s, k + 1, Len(s)))

\* '/'.join(parts)
RECURSIVE join(_)
join(parts) ==
  IF Len(parts) = 0 THEN <<>>
  ELSE IF Len(parts) = 1 THEN parts[1]
  ELSE parts[1] \o <<"/">> \o join(Tail(parts))

\* os.path.join(a, b) (posixpath)
os_path_join(a, b) ==
  IF startswith(b, <<"/">>) THEN b
  ELSE IF a = <<>> \/ a[Len(a)] = "/" THEN a \o b
  ELSE a \o <<"/">> \o b

\* str.replace('\\', '/')
replace_backslash(s) == [k \in 1..Len(s) |-> IF s[k] = "\\" THEN "/" ELSE s[k]]

\* full_s3_key = os.path.join(args.prefix, s3_key).replace('\\', '/')
full_s3_key(prefix, s3_key) == replace_backslash(os_path_join(prefix, s3_key))

\* ------------------------------------------------- environment defaults
S3Scheme == <<"s", "3", ":", "/", "/">>

get_default_source(ifcb_dir, exists) ==
  IF Truthy(ifcb_dir) /\ exists THEN ifcb_dir ELSE None

get_default_bucket(upload_url) ==
  IF startswith(upload_url, S3Scheme)
  THEN split(SubSeq(upload_url, 6, Len(upload_url)))[1]
  ELSE None

get_default_prefix(upload_url) ==
  IF startswith(upload_url, S3Scheme)
  THEN LET parts == split(SubSeq(upload_url, 6, Len(upload_url)))
       IN IF Len(parts) > 1 THEN join(Tail(parts)) ELSE <<>>
  ELSE <<>>

\* parser.parse_args() over the defaults of setup_argparse: an option given on
\* the command line wins, otherwise the environment default.
parse_args(cli, ifcb_dir, ifcb_exists, upload_url) ==
  [validate  |-> cli.validate,
   dry_run   |-> cli.dry_run,
   recursive |-> cli.recursive,
   source    |-> IF cli.source # None THEN cli.source
                 ELSE get_default_source(ifcb_dir, ifcb_exists),
   bucket    |-> IF cli.bucket # None THEN cli.bucket
                 ELSE get_default_bucket(upload_url),
   prefix    |-> IF cli.prefix # None THEN cli.prefix
                 ELSE get_default_prefix(upload_url)]

\* The inputs of a run.
SrcPath == <<"d">>
CliPrefixes == {None, <<"/", "a">>}
UploadUrls == {<<>>,
               S3Scheme \o <<"b">>,
               S3Scheme \o <<"b", "/", "a">>,
               S3Scheme \o <<"b", "/", "/", "a">>}
CommandLines ==
  [validate : BOOLEAN, dry_run : BOOLEAN, recursive : BOOLEAN,
   source : {None, SrcPath}, bucket : {None}, prefix : CliPrefixes]

\* ------------------------------------------------------ the source tree
Digit == <<"0", "1", "2", "3", "4", "5", "6", "7", "8", "9">>

RECURSIVE Digits(_)
Digits(k) ==
  IF k < 10 THEN <<Digit[k + 1]>> ELSE Digits(k \div 10) \o <<Digit[(k % 10) + 1]>>

\* File k of the tree: odd k lies directly in the source directory, even k in
\* its subdirectory s.
InSubdir(k) == k % 2 = 0
FileName(k) == IF InSubdir(k) THEN <<"s", "/">> \o Digits(k) ELSE Digits(k)

\* os.path.getsize(local_path) when it succeeds
getsize(local_path) == 2 ^ (local_path - 1)

\* The orderings of a set: every sequence that lists each element once.
Orderings(S) ==
  {s \in [1..Cardinality(S) -> S] : \A a, b \in 1..Cardinality(S) : a # b => s[a] # s[b]}

\* get_files_to_upload on a directory: the files the glob yields (direct
\* children only unless recursive), in the order the directory yields them.
glob_files(recursive) ==
  LET eligible == {k \in 1..MaxFiles : recursive \/ ~InSubdir(k)}
  IN UNION {Orderings(present) : present \in SUBSET eligible}

get_files_to_upload(is_file, recursive) ==
  IF is_file THEN {<<<<1, FileName(1)>>>>}
  ELSE {[n \in 1..Len(o) |-> <<o[n], FileName(o[n])>>] : o \in glob_files(recursive)}

\* ------------------------------------------------------------- main
validate_args(a, source_exists) ==
  IF ~Truthy(a.source) THEN FALSE
  ELSE IF ~source_exists THEN FALSE
  ELSE IF ~Truthy(a.bucket) THEN FALSE
  ELSE TRUE

\* Whether main goes on after a failed check (it returns 1 instead).
ProceedsAfterCheck_always(ok) == TRUE
ProceedsAfterCheck(ok) == ok

\* Nothing checked, enumerated, submitted or collected yet.
NoChecks ==
  /\ args_checked = "no" /\ creds_checked = "no" /\ src_missing = FALSE
  /\ enum_called = FALSE

NoFiles ==
  /\ files = <<>> /\ dry_printed = <<>> /\ upload_tasks = <<>>
  /\ total_files = 0 /\ max_workers = 0

NoSubmits ==
  /\ success = TRUE /\ total_size = 0 /\ i = 0 /\ futures = <<>>
  /\ submit_log = <<>> /\ future_to_file = <<>> /\ fstate = <<>>
  /\ s3_written = FALSE /\ yielded = {} /\ sized = {} /\ pbar = 0
  /\ ret = FALSE /\ exit_code = 0

PoolIdle == p_queued = 0 /\ p_active = 0 /\ p_done = 0

Init ==
  /\ pc = "main"
  /\ \E cli \in CommandLines, ifcb_dir \in {None, SrcPath},
        ifcb_exists \in BOOLEAN, upload_url \in UploadUrls :
       args = parse_args(cli, ifcb_dir, ifcb_exists, upload_url)
  /\ NoChecks /\ NoFiles /\ NoSubmits
  /\ PoolIdle

UnchangedRun ==
  UNCHANGED <<files, dry_printed, upload_tasks, total_files, max_workers,
              success, total_size, i, futures, submit_log, future_to_file,
              fstate, s3_written, yielded, sized, pbar>>

UnchangedPool == UNCHANGED <<p_queued, p_active, p_done>>

\* main, lines 401-403: --validate only checks the credentials.
MainValidateOnly ==
  /\ pc = "main" /\ args.validate
  /\ \E ok \in BOOLEAN :
       /\ creds_checked' = IF ok THEN "ok" ELSE "bad"
       /\ exit_code' = IF ok THEN 0 ELSE 1
  /\ pc' = "exit"
  /\ UNCHANGED <<args, args_checked, src_missing, enum_called, ret>>
  /\ UnchangedRun /\ UnchangedPool

\* main, lines 405-406
MainValidateArgs ==
  /\ pc = "main" /\ ~args.validate
  /\ \E source_exists \in BOOLEAN :
       LET ok == validate_args(args, source_exists)
       IN /\ args_checked' = IF ok THEN "ok" ELSE "bad"
          /\ src_missing' = (Truthy(args.source) /\ ~source_exists)
          /\ IF ProceedsAfterCheck(ok)
             THEN pc' = "creds" /\ UNCHANGED exit_code
             ELSE pc' = "exit" /\ exit_code' = 1
  /\ UNCHANGED <<args, creds_checked, enum_called, ret>>
  /\ UnchangedRun /\ UnchangedPool

\* main, lines 408-409
MainValidateCreds ==
  /\ pc = "creds"
  /\ \E ok \in BOOLEAN :
       /\ creds_checked' = IF ok THEN "ok" ELSE "bad"
       /\ IF ProceedsAfterCheck(ok)
          THEN pc' = "upload" /\ UNCHANGED exit_code
          ELSE pc' = "exit" /\ exit_code' = 1
  /\ UNCHANGED <<args, args_checked, src_missing, enum_called, ret>>
  /\ UnchangedRun /\ UnchangedPool

\* ------------------------------------------------------- upload_files
\* Line 311: the dry-run branch returns before any task is prepared.
IsDryRun_never(a) == FALSE
IsDryRun(a) == a.dry_run

\* Line 327
MaxWorkersFor_uncapped(n) == n
MaxWorkersFor(n) == Min(WorkerCap, n)

\* Lines 336-339
prepare_tasks(prefix, fl) ==
  [n \in 1..Len(fl) |-> <<fl[n][1], full_s3_key(prefix, fl[n][2])>>]

\* Lines 293-339: client set-up, enumeration, the empty and dry-run returns,
\* and the preparation of the live run. A FileNotFoundError of
\* get_files_to_upload is caught at line 387 and upload_files returns False.
Enumerate ==
  /\ pc = "upload"
  /\ enum_called' = TRUE
  /\ \E kind \in {"missing", "file", "dir"} :
       IF kind = "missing"
       THEN /\ src_missing' = TRUE
            /\ ret' = FALSE
            /\ pc' = "returned"
            /\ UnchangedRun
       ELSE /\ UNCHANGED src_missing
            /\ \E fl \in get_files_to_upload(kind = "file", args.recursive) :
                 /\ files' = fl
                 /\ IF fl = <<>>
                    THEN /\ ret' = TRUE /\ pc' = "returned"
                         /\ UNCHANGED <<dry_printed, upload_tasks, total_files,
                                        max_workers, success, total_size>>
                    ELSE IF IsDryRun(args)
                    THEN /\ dry_printed' =
                              [n \in 1..Len(fl) |-> full_s3_key(args.prefix, fl[n][2])]
                         /\ ret' = TRUE /\ pc' = "returned"
                         /\ UNCHANGED <<upload_tasks, total_files, max_workers,
                                        success, total_size>>
                    ELSE /\ total_files' = Len(fl)
                         /\ success' = TRUE
                         /\ max_workers' = MaxWorkersFor(Len(fl))
                         /\ total_size' = 0
                         /\ upload_tasks' = prepare_tasks(args.prefix, fl)
                         /\ pc' = "submit"
                         /\ UNCHANGED <<dry_printed, ret>>
            /\ UNCHANGED <<i, futures, submit_log, future_to_file, fstate,
                           s3_written, yielded, sized, pbar>>
  /\ UNCHANGED <<args, args_checked, creds_checked, exit_code>>
  /\ UnchangedPool

\* Line 350: batch = upload_tasks[i:i + batch_size]
batch_short(tasks, k) == SubSeq(tasks, k + 1, Min(k + batch_size - 1, Len(tasks)))
batch(tasks, k) == SubSeq(tasks, k + 1, Min(k + batch_size, Len(tasks)))

\* Lines 349-361, one iteration of the submission loop: the list
\* comprehension submits the calls of the batch in order, zip(futures, batch)
\* fills future_to_file, and i advances by batch_size. The submissions of one
\* batch are one step: they touch nothing a worker reads or writes but the
\* executor's queue, which they only extend. The j-th call of the batch
\* returns future first + j.
SubmitBatch ==
  /\ pc = "submit" /\ i < Len(upload_tasks)
  /\ LET b == batch(upload_tasks, i)
         first == Len(submit_log)
         n == Len(b)
     IN /\ submit_log' = submit_log \o b
        /\ fstate' = fstate \o [j \in 1..n |-> "queued"]
        /\ futures' = [j \in 1..n |-> first + j]
        /\ future_to_file' =
             [f \in DOMAIN future_to_file \cup ((first + 1)..(first + n)) |->
                IF f > first THEN b[f - first][1] ELSE future_to_file[f]]
  /\ i' = i + batch_size
  /\ UNCHANGED <<pc, args, args_checked, creds_checked, src_missing,
                 enum_called, files, dry_printed, upload_tasks, total_files,
                 max_workers, success, total_size, s3_written, yielded, sized,
                 pbar, ret, exit_code>>
  /\ UnchangedPool

\* Line 349 exhausted: the submission loop ends, line 363.
EndSubmit ==
  /\ pc = "submit" /\ i >= Len(upload_tasks)
  /\ pc' = "collect"
  /\ UNCHANGED <<args, args_checked, creds_checked, src_missing, enum_called,
                 ret, exit_code>>
  /\ UnchangedRun /\ UnchangedPool

\* ------------------------------------------------------ the worker pool
Running == {f \in DOMAIN fstate : fstate[f] = "running"}

\* ThreadPoolExecutor(max_workers): a queued call starts on a free worker.
WorkerStart(f) ==
  /\ pc \in {"submit", "collect"}
  /\ f \in DOMAIN fstate /\ fstate[f] = "queued"
  /\ Cardinality(Running) < max_workers
  /\ fstate' = [fstate EXCEPT ![f] = "running"]
  /\ UNCHANGED <<pc, args, args_checked, creds_checked, src_missing,
                 enum_called, files, dry_printed, upload_tasks, total_files,
                 max_workers, success, total_size, i, futures, submit_log,
                 future_to_file, s3_written, yielded, sized, pbar, ret, exit_code>>
  /\ UnchangedPool

\* upload_file, lines 237-252: its return value and whether it reached
\* s3_client.upload_fileobj. outcome is what the environment does to the call:
\* "open_error" (open raises), "put_error" (upload_fileobj raises) or "ok".
upload_file(dry_run, outcome) ==
  IF dry_run THEN [result |-> TRUE, put |-> FALSE]
  ELSE IF outcome = "open_error" THEN [result |-> FALSE, put |-> FALSE]
  ELSE IF outcome = "put_error" THEN [result |-> FALSE, put |-> TRUE]
  ELSE [result |-> TRUE, put |-> TRUE]

WorkerFinish(f) ==
  /\ pc \in {"submit", "collect"}
  /\ f \in DOMAIN fstate /\ fstate[f] = "running"
  /\ \E outcome \in {"open_error", "put_error", "ok"} :
       LET r == upload_file(args.dry_run, outcome)
       IN /\ fstate' = [fstate EXCEPT ![f] = IF r.result THEN "ok" ELSE "failed"]
          /\ s3_written' = (s3_written \/ r.put)
  /\ UNCHANGED <<pc, args, args_checked, creds_checked, src_missing,
                 enum_called, files, dry_printed, upload_tasks, total_files,
                 max_workers, success, total_size, i, futures, submit_log,
                 future_to_file, yielded, sized, pbar, ret, exit_code>>
  /\ UnchangedPool

\* ------------------------------------------------- the collection loop
\* Lines 370-371 and 380: the success flag after one future.
collect_success(flag, result, readable) == flag /\ result /\ readable

\* Lines 373-374: the size is read and added whatever the result was.
collect_size_if_ok(result, readable, size) == IF result /\ readable THEN size ELSE 0
collect_size(result, readable, size) == IF readable THEN size ELSE 0

\* Lines 375 and 381: pbar.update(1) on both paths.
collect_progress_no_error(readable) == IF readable THEN 1 ELSE 0
collect_progress(readable) == 1

\* Lines 367-381: as_completed yields a finished future of future_to_file,
\* once; readable is whether os.path.getsize succeeds.
Collect(f) ==
  /\ pc = "collect"
  /\ f \in DOMAIN future_to_file /\ f \notin yielded
  /\ fstate[f] \in {"ok", "failed"}
  /\ yielded' = yielded \cup {f}
  /\ \E readable \in BOOLEAN :
       LET file_path == future_to_file[f]
           result == fstate[f] = "ok"
       IN /\ success' = collect_success(success, result, readable)
          /\ total_size' = total_size + collect_size(result, readable, getsize(file_path))
          /\ pbar' = pbar + collect_progress(readable)
          /\ sized' = IF readable THEN sized \cup {f} ELSE sized
  /\ UNCHANGED <<pc, args, args_checked, creds_checked, src_missing,
                 enum_called, files, dry_printed, upload_tasks, total_files,
                 max_workers, i, futures, submit_log, future_to_file, fstate,
                 s3_written, ret, exit_code>>
  /\ UnchangedPool

\* Lines 383-385: as_completed is exhausted, the executor has shut down, the
\* summary is printed and success returned.
Report ==
  /\ pc = "collect"
  /\ yielded = DOMAIN future_to_file
  /\ \A f \in DOMAIN fstate : fstate[f] \in {"ok", "failed"}
  /\ ret' = success
  /\ pc' = "returned"
  /\ UNCHANGED <<args, args_checked, creds_checked, src_missing, enum_called,
                 exit_code>>
  /\ UnchangedRun /\ UnchangedPool

\* main, line 414
MainExit ==
  /\ pc = "returned"
  /\ exit_code' = IF ret THEN 0 ELSE 1
  /\ pc' = "exit"
  /\ UNCHANGED <<args, args_checked, creds_checked, src_missing, enum_called,
                 ret>>
  /\ UnchangedRun /\ UnchangedPool

Next ==
  \/ MainValidateOnly
  \/ MainValidateArgs
  \/ MainValidateCreds
  \/ Enumerate
  \/ SubmitBatch
  \/ EndSubmit
  \/ \E f \in 1..MaxFiles : WorkerStart(f)
  \/ \E f \in 1..MaxFiles : WorkerFinish(f)
  \/ \E f \in 1..MaxFiles : Collect(f)
  \/ Report
  \/ MainExit

Spec == Init /\ [][Next]_vars

\* Every step is taken by a running thread (the main thread, or a worker of
\* the pool): none of them waits for anything but the others' steps.
FairSpec == Spec /\ WF_vars(Next)

\* --------------------------------------- the submission loop on its own
\* A live run that has passed its checks: what upload_files holds at line 342.
LiveArgs ==
  [validate |-> FALSE, dry_run |-> FALSE, recursive |-> TRUE,
   source |-> SrcPath, bucket |-> <<"b">>, prefix |-> <<"a">>]

\* Task-list lengths within BatchExtra of no, one and two full batches.
BatchLens ==
  {n \in 0..(2 * batch_size + BatchExtra) :
     n % batch_size <= BatchExtra \/ n % batch_size >= batch_size - BatchExtra}

InitBatch ==
  /\ pc = "submit"
  /\ args = LiveArgs
  /\ args_checked = "ok" /\ creds_checked = "ok" /\ src_missing = FALSE
  /\ enum_called = TRUE
  /\ \E n \in BatchLens :
       /\ files = [k \in 1..n |-> <<k, FileName(k)>>]
       /\ total_files = n
       /\ max_workers = MaxWorkersFor(n)
  /\ upload_tasks = prepare_tasks(args.prefix, files)
  /\ dry_printed = <<>>
  /\ NoSubmits
  /\ PoolIdle

NextBatch == SubmitBatch \/ EndSubmit

SpecBatch == InitBatch /\ [][NextBatch]_vars

\* ------------------------------------------- the worker pool by numbers
\* The executor of lines 342-361 with the calls counted instead of named.
InitPool ==
  /\ pc = "pool"
  /\ args = LiveArgs
  /\ args_checked = "ok" /\ creds_checked = "ok" /\ src_missing = FALSE
  /\ enum_called = TRUE
  /\ files = <<>> /\ dry_printed = <<>> /\ upload_tasks = <<>>
  /\ total_files \in 1..MaxPoolTasks
  /\ max_workers = MaxWorkersFor(total_files)
  /\ NoSubmits
  /\ PoolIdle

UnchangedMain ==
  UNCHANGED <<pc, args, args_checked, creds_checked, src_missing, enum_called,
              files, dry_printed, upload_tasks, total_files, max_workers,
              success, total_size, i, futures, submit_log, future_to_file,
              fstate, s3_written, yielded, sized, pbar, ret, exit_code>>

\* Lines 353-356: executor.submit queues one more call.
PoolSubmit ==
  /\ pc = "pool"
  /\ p_queued + p_active + p_done < total_files
  /\ p_queued' = p_queued + 1
  /\ UNCHANGED <<p_active, p_done>>
  /\ UnchangedMain

\* Line 342: a queued call starts when fewer than max_workers are executing.
PoolStart ==
  /\ pc = "pool"
  /\ p_queued > 0
  /\ p_active < max_workers
  /\ p_queued' = p_queued - 1
  /\ p_active' = p_active + 1
  /\ UNCHANGED p_done
  /\ UnchangedMain

\* Lines 237-252: upload_file returns.
PoolFinish ==
  /\ pc = "pool"
  /\ p_active > 0
  /\ p_active' = p_active - 1
  /\ p_done' = p_done + 1
  /\ UNCHANGED p_queued
  /\ UnchangedMain

NextPool == PoolSubmit \/ PoolStart \/ PoolFinish

SpecPool == InitPool /\ [][NextPool]_vars

\* ------------------------------------------- the key resolver on its own
PathChars == {"a", "b", "/", "\\"}

InitResolve ==
  /\ pc = "resolve"
  /\ \E prefix \in Strings(PathChars, MaxLen) :
       args = [LiveArgs EXCEPT !.prefix = prefix, !.dry_run = TRUE]
  /\ \E s3_key \in Strings(PathChars, MaxLen) \ {<<>>} :
       files = <<<<1, s3_key>>>>
  /\ args_checked = "ok" /\ creds_checked = "ok" /\ src_missing = FALSE
  /\ enum_called = TRUE
  /\ dry_printed = <<>> /\ upload_tasks = <<>>
  /\ total_files = 0 /\ max_workers = 0
  /\ NoSubmits
  /\ PoolIdle

\* Line 316 (and 338) applied to the one pair of files.
ResolveKey ==
  /\ pc = "resolve"
  /\ dry_printed' = <<full_s3_key(args.prefix, files[1][2])>>
  /\ pc' = "resolved"
  /\ UNCHANGED <<args, args_checked, creds_checked, src_missing, enum_called,
                 files, upload_tasks, total_files, max_workers, success,
                 total_size, i, futures, submit_log, future_to_file, fstate,
                 s3_written, yielded, sized, pbar, ret, exit_code>>
  /\ UnchangedPool

NextResolve == ResolveKey

SpecResolve == InitResolve /\ [][NextResolve]_vars

\* ================================================================ claims
\* A live run is one that prepared upload tasks (line 339); it is over once
\* upload_files has returned.
LiveRun == upload_tasks # <<>>
LiveDone == LiveRun /\ pc \in {"returned", "exit"}
Executed(f) == f \in DOMAIN fstate /\ fstate[f] \in {"ok", "failed"}
Failed(f) == f \in DOMAIN fstate /\ fstate[f] = "failed"
Succeeded(f) == f \in DOMAIN fstate /\ fstate[f] = "ok"

RECURSIVE SumSizes(_)
SumSizes(S) ==
  IF S = {} THEN 0
  ELSE LET f == CHOOSE x \in S : TRUE
       IN getsize(upload_tasks[f][1]) + SumSizes(S \ {f})

\* C1: a live run over N >= 1 tasks always ends with every task executed,
\* every completion counted once by the collection loop (N progress updates
\* for N yielded futures), and upload_files returning False if a task failed.
C1_Collected ==
  /\ pc \in {"returned", "exit"}
  /\ \A f \in 1..Len(files) : Executed(f) /\ f \in yielded
  /\ Cardinality(yielded) = Len(files)
  /\ pbar = Len(files)
  /\ (\E f \in 1..Len(files) : Failed(f)) => ret = FALSE
C1_FailuresDoNotStopTheRun == (LiveRun /\ pc = "submit") ~> C1_Collected
C1_Witness ==
  /\ LiveDone /\ C1_Collected /\ Len(files) >= 2
  /\ \E f, g \in 1..Len(files) : Failed(f) /\ Succeeded(g)

\* C2: when all N dispatched uploads succeed, total_files is N and
\* upload_files returns True.
C2_AllSucceedMeansSuccess ==
  (LiveDone /\ \A f \in 1..Len(upload_tasks) : Succeeded(f))
    => (total_files = Len(upload_tasks) /\ ret = TRUE)

\* C3 as stated: with --dry-run and an existing source, no upload call, no
\* submitted task, and the run always ends in success with exit code 0.
C3_DryRunAlwaysExitsZero ==
  (args.dry_run /\ Truthy(args.source) /\ ~src_missing)
    => /\ ~s3_written /\ submit_log = <<>> /\ fstate = <<>>
       /\ pc = "exit" => exit_code = 0

\* C3 amended: with --dry-run and an existing source, no upload call and no
\* submitted task; and once argument and credential validation have passed,
\* upload_files returns True and the exit code is 0.
C3_DryRunNoWrites ==
  (args.dry_run /\ Truthy(args.source) /\ ~src_missing)
    => /\ ~s3_written /\ submit_log = <<>> /\ fstate = <<>>
       /\ (args_checked = "ok" /\ creds_checked = "ok")
            => /\ pc \in {"returned", "exit"} => ret = TRUE
               /\ pc = "exit" => exit_code = 0
C3_Witness ==
  /\ args.dry_run /\ ~args.validate /\ ~src_missing
  /\ pc = "exit" /\ exit_code = 0 /\ Len(dry_printed) >= 2

\* C4: the remote key is prefix and relative key joined by exactly one
\* separator, whatever separators end the prefix or start the key; an empty
\* prefix leaves the relative key unchanged. Separators are compared after
\* their normalisation to forward slashes, and a prefix or key made of
\* separators alone is left out, so that only the joint decides.
RECURSIVE rstrip(_)
rstrip(s) == IF s # <<>> /\ s[Len(s)] = "/" THEN rstrip(SubSeq(s, 1, Len(s) - 1)) ELSE s
RECURSIVE lstrip(_)
lstrip(s) == IF s # <<>> /\ s[1] = "/" THEN lstrip(Tail(s)) ELSE s
C4_ExactlyOneSeparator ==
  pc = "resolved"
    => LET prefix == replace_backslash(args.prefix)
           relative_key == replace_backslash(files[1][2])
       IN (lstrip(relative_key) # <<>> /\ (prefix = <<>> \/ rstrip(prefix) # <<>>))
            => dry_printed[1] =
                 IF prefix = <<>> THEN relative_key
                 ELSE rstrip(prefix) \o <<"/">> \o lstrip(relative_key)

\* C5: no remote key handed to an upload task or printed by the dry run
\* starts with a path separator.
C5_NoLeadingSeparator ==
  /\ \A n \in 1..Len(dry_printed) : ~startswith(dry_printed[n], <<"/">>)
  /\ \A n \in 1..Len(submit_log) : ~startswith(submit_log[n][2], <<"/">>)

\* C6: enumeration and uploads only start after argument validation and
\* credential validation have both succeeded; with --validate only the
\* credentials are checked and nothing is enumerated or uploaded.
C6_ValidatedBeforeUpload ==
  /\ (enum_called \/ files # <<>> \/ submit_log # <<>> \/ s3_written)
       => /\ args_checked = "ok" /\ creds_checked = "ok"
          /\ Truthy(args.source) /\ Truthy(args.bucket)
  /\ args.validate
       => /\ ~enum_called /\ files = <<>> /\ submit_log = <<>> /\ ~s3_written
          /\ args_checked = "no"
          /\ pc \in {"main", "exit"}
C6_Witness ==
  /\ enum_called /\ s3_written /\ args_checked = "ok" /\ creds_checked = "ok"

\* C7: main returns 1 exactly when credential validation failed, a required
\* argument is missing, the source path does not exist or an upload failed
\* (a --validate run checks the credentials only), and 0 otherwise.
C7_Failure ==
  \/ creds_checked = "bad"
  \/ ~args.validate /\ (~Truthy(args.source) \/ ~Truthy(args.bucket))
  \/ src_missing
  \/ \E f \in DOMAIN fstate : Failed(f)
C7_ExitCodes == pc = "exit" => (exit_code = 1 <=> C7_Failure)

\* C8: the pool of a live run over N >= 1 tasks has min(32, N) >= 1 workers
\* and never more than min(32, N) upload_file calls execute at once.
C8_BoundedParallelism ==
  pc = "pool"
    => LET cap == IF total_files < WorkerCap THEN total_files ELSE WorkerCap
       IN /\ max_workers = cap
          /\ max_workers >= 1
          /\ p_active <= cap
C8_Witness == pc = "pool" /\ total_files > WorkerCap /\ p_active = WorkerCap /\ p_queued > 0

\* C9: the batch loop submits the tasks in list order, each once with its own
\* (local_path, remote key), and ends with future_to_file mapping each of the
\* N futures to the local path of the task it runs.
C9_BatchingPreservesSubmission ==
  /\ Len(submit_log) <= Len(upload_tasks)
  /\ submit_log = SubSeq(upload_tasks, 1, Len(submit_log))
  /\ pc = "collect"
       => /\ submit_log = upload_tasks
          /\ DOMAIN future_to_file = 1..Len(upload_tasks)
          /\ \A f \in 1..Len(upload_tasks) : future_to_file[f] = upload_tasks[f][1]
C9_Witness ==
  /\ pc = "collect" /\ Len(upload_tasks) > 2 * batch_size
  /\ i = 3 * batch_size /\ Len(submit_log) = Len(upload_tasks)

\* C10: the summary of a finished live run is a function of the per-task
\* outcomes alone: total_files is the number of tasks, total_size the sum of
\* the sizes that were read, success the conjunction of all results and reads.
C10_SummaryIsAggregate ==
  LiveDone
    => /\ total_files = Len(files)
       /\ total_size = SumSizes(sized)
       /\ ret = \A f \in 1..Len(files) : Succeeded(f) /\ f \in sized
C10_Witness ==
  /\ LiveDone /\ Len(files) >= 2
  /\ \E f, g \in 1..Len(files) : Failed(f) /\ f \in sized /\ g \notin sized
  /\ yielded = 1..Len(files)

====
